---- MODULE Spec2Model ----
(***************************************************************************)
(* AI_BookReader: the chunker (main.py / app.py chunk_text), the index     *)
(* store (vector_store.py VectorStore) and the answer aggregator           *)
(* (qa_system.py QASystem.answer_question).                                *)
(*                                                                         *)
(* The embedding model, the FAISS flat L2 index and the extractive QA      *)
(* pipeline are library capabilities.  An embedding is a point on a line   *)
(* and the L2 distance its squared difference; the QA pipeline's output    *)
(* for a context is an input of the answer action.                         *)
(***************************************************************************)
EXTENDS Integers, Sequences, FiniteSets, TLC

VARIABLES
    up,          \* a process holding a VectorStore instance is running
    index,       \* VectorStore.index: the vectors of the FAISS index, in order
    metadata,    \* VectorStore.metadata
    diskIndex,   \* the file at index_path
    diskMeta,    \* the file at meta_path
    ret,         \* the last operation and what it returned or raised
    added,       \* metadata of the successful add_texts calls since the empty start
    clean,       \* nothing but successful operations happened since the empty start
    text,        \* chunk_text: the argument text, a sequence of words
    chunk_size,  \* chunk_text: the argument chunk_size
    has_tok,     \* _HAS_SENT_TOKENIZE
    chunks,      \* chunk_text: the returned list of chunks
    returned     \* chunk_text has returned

vars == <<up, index, metadata, diskIndex, diskMeta, ret, added, clean,
          text, chunk_size, has_tok, chunks, returned>>

storeVars == <<up, index, metadata, diskIndex, diskMeta, ret, added, clean>>
chunkVars == <<text, chunk_size, has_tok, chunks, returned>>

----------------------------------------------------------------------------
(* Bounds *)

MaxEntries == 2      \* entries held by a store fed by add_book
MaxBatch == 2        \* chunks of one add_book call
MaxApiEntries == 2   \* entries held by a store fed by direct add_texts calls
MaxApiBatch == 1     \* texts of one direct add_texts call
MaxTopK == 3         \* top_k of a search
MaxWords == 5        \* words of a text given to chunk_text
MaxChunkSize == 3    \* chunk_size given to chunk_text

Texts == {"a", "b"}
Queries == {"a", "q"}
Sources == {"bk"}
Scores == {5, 9}

----------------------------------------------------------------------------
(* Library capabilities *)

\* SentenceTransformer.encode of one text
Embed(t) == CASE t = "a" -> 0 [] t = "b" -> 2 [] t = "q" -> 5 [] OTHER -> 7

\* IndexFlatL2's metric: the squared Euclidean distance
L2(u, v) == (u - v) * (u - v)

\* the label FAISS reports for a missing neighbour
NoLabel == -1

\* the distance FAISS reports for a missing neighbour (the largest float32)
FltMax == 1000

\* IndexFlatL2.search(q, k): the k nearest vectors in non-decreasing distance,
\* as <<label, distance>> with 0-based labels; vectors at the same distance
\* come in an order the library chooses; missing neighbours are padded.
RECURSIVE Nearest(_, _, _, _)
Nearest(idx, qv, k, taken) ==
    IF k = 0 THEN {<<>>}
    ELSE LET rem == (1..Len(idx)) \ taken IN
         IF rem = {} THEN {[j \in 1..k |-> <<NoLabel, FltMax>>]}
         ELSE LET best == {i \in rem : \A j \in rem : L2(idx[i], qv) <= L2(idx[j], qv)}
              IN UNION {{<<<<i - 1, L2(idx[i], qv)>>>> \o rest :
                           rest \in Nearest(idx, qv, k - 1, taken \cup {i})} : i \in best}

FaissSearch(idx, qv, k) == Nearest(idx, qv, k, {})

----------------------------------------------------------------------------
(* Python lists *)

\* lst[i] is defined for -len <= i < len
PyInRange(lst, i) == -Len(lst) <= i /\ i < Len(lst)

\* lst[i]: 0-based, a negative i counts from the end
PyGet(lst, i) == IF i >= 0 THEN lst[i + 1] ELSE lst[Len(lst) + i + 1]

----------------------------------------------------------------------------
(* Files *)

Absent == [st |-> "absent", data |-> <<>>]
Corrupt == [st |-> "corrupt", data |-> <<>>]
File(d) == [st |-> "ok", data |-> d]

EmptyStore == [index |-> <<>>, metadata |-> <<>>]

\* VectorStore._load_index
LoadIndex(di, dm) ==
    IF di.st # "absent" /\ dm.st # "absent"
    THEN IF di.st = "corrupt" \/ dm.st = "corrupt"
         THEN EmptyStore
         ELSE [index |-> di.data, metadata |-> dm.data]
    ELSE EmptyStore

\* How far a call got: stage is the step that failed ("done": none did),
\* partial says whether the failing write left a truncated file behind,
\* dies says whether the process stopped there instead of raising.
SaveFates ==
    {[stage |-> s, partial |-> p, dies |-> FALSE] :
        s \in {"write_index", "np_save"}, p \in BOOLEAN}
      \cup {[stage |-> "done", partial |-> FALSE, dies |-> FALSE]}

AddFates ==
    SaveFates
      \cup {[stage |-> "encode", partial |-> FALSE, dies |-> d] : d \in BOOLEAN}
      \cup {[stage |-> s, partial |-> p, dies |-> TRUE] :
               s \in {"write_index", "np_save"}, p \in BOOLEAN}

\* save() that leaves the metadata file as it was
SaveFiles_IndexOnly(di, dm, idx, md, fate) ==
    IF fate.stage = "write_index"
    THEN [index |-> IF fate.partial THEN Corrupt ELSE di, meta |-> dm]
    ELSE [index |-> File(idx), meta |-> dm]

\* VectorStore.save: the two files after save() got as far as fate says
SaveFiles(di, dm, idx, md, fate) ==
    CASE fate.stage = "write_index" ->
            [index |-> IF fate.partial THEN Corrupt ELSE di, meta |-> dm]
      [] fate.stage = "np_save" ->
            [index |-> File(idx), meta |-> IF fate.partial THEN Corrupt ELSE dm]
      [] OTHER -> [index |-> File(idx), meta |-> File(md)]

\* add_texts that extends the metadata only after save() returned
AddMemory_ExtendAfterSave(idx, md, texts, meta, fate) ==
    IF fate.stage = "encode"
    THEN [index |-> idx, metadata |-> md]
    ELSE [index |-> idx \o [i \in 1..Len(texts) |-> Embed(texts[i])],
          metadata |-> IF fate.stage = "done" THEN md \o meta ELSE md]

\* VectorStore.add_texts: index and metadata in memory after the call got as
\* far as fate says
AddMemory(idx, md, texts, meta, fate) ==
    IF fate.stage = "encode"
    THEN [index |-> idx, metadata |-> md]
    ELSE [index |-> idx \o [i \in 1..Len(texts) |-> Embed(texts[i])],
          metadata |-> md \o meta]

----------------------------------------------------------------------------
(* What an operation returned *)

Ret(op, outcome) ==
    [op |-> op, outcome |-> outcome, stage |-> "",
     args_aligned |-> TRUE, query |-> "", top_k |-> 0, hits |-> <<>>, value |-> <<>>,
     outs |-> <<>>, best_answer |-> <<>>, all_answers |-> <<>>, message |-> "",
     calls |-> 0,
     after_kill |-> FALSE]

Outcome(fate) == IF fate.stage = "done" THEN "ok" ELSE "raised"

----------------------------------------------------------------------------
(* The index store *)

\* VectorStore.__init__ in a new process
construct ==
    LET s == LoadIndex(diskIndex, diskMeta) IN
    /\ up' = TRUE
    /\ index' = s.index
    /\ metadata' = s.metadata
    /\ ret' = [Ret("init", "ok") EXCEPT !.after_kill = ~up]
    /\ UNCHANGED <<diskIndex, diskMeta, added, clean, chunkVars>>

\* VectorStore.add_texts(texts, meta)
AddTexts(texts, meta, fate, cap) ==
    /\ up
    /\ Len(texts) = Len(meta)
    /\ Len(index) + Len(texts) <= cap
    /\ Len(metadata) + Len(meta) <= cap
    /\ IF texts = <<>>
       THEN /\ fate.stage = "done"
            /\ ret' = [Ret("add", "ok") EXCEPT !.stage = "done"]
            /\ UNCHANGED <<up, index, metadata, diskIndex, diskMeta, added, clean>>
       ELSE LET m == AddMemory(index, metadata, texts, meta, fate)
                f == IF fate.stage = "encode"
                     THEN [index |-> diskIndex, meta |-> diskMeta]
                     ELSE SaveFiles(diskIndex, diskMeta, m.index, m.metadata, fate)
            IN /\ up' = ~fate.dies
               /\ index' = IF fate.dies THEN <<>> ELSE m.index
               /\ metadata' = IF fate.dies THEN <<>> ELSE m.metadata
               /\ diskIndex' = f.index
               /\ diskMeta' = f.meta
               /\ ret' = [Ret(IF fate.dies THEN "killed" ELSE "add", Outcome(fate))
                            EXCEPT !.stage = fate.stage,
                                   !.args_aligned = \A i \in 1..Len(texts) :
                                                        texts[i] = meta[i].text]
               /\ clean' = (clean /\ fate.stage = "done")
               /\ added' = IF clean' THEN added \o meta ELSE <<>>
    /\ UNCHANGED chunkVars

MetaRecords == [source : Sources, text : Texts]

\* a caller of the API passing any equal-length texts and meta
add_texts ==
    \E n \in 0..MaxApiBatch : \E texts \in [1..n -> Texts], meta \in [1..n -> MetaRecords] :
        \E fate \in AddFates : ~fate.dies /\ AddTexts(texts, meta, fate, MaxApiEntries)

\* main.py add_book and the upload branch of app.py: the chunks of a
\* non-empty document, each with its metadata record
add_book ==
    \E n \in 1..MaxBatch : \E chs \in [1..n -> Texts], src \in Sources, fate \in AddFates :
        LET meta == [i \in 1..n |-> [source |-> src, text |-> chs[i]]]
        IN AddTexts([i \in 1..n |-> meta[i].text], meta, fate, MaxEntries)

\* VectorStore.save() called directly
save ==
    \E fate \in SaveFates :
        LET f == SaveFiles(diskIndex, diskMeta, index, metadata, fate) IN
        /\ up
        /\ diskIndex' = f.index
        /\ diskMeta' = f.meta
        /\ ret' = [Ret("save", Outcome(fate)) EXCEPT !.stage = fate.stage]
        /\ clean' = (clean /\ fate.stage = "done")
        /\ added' = IF clean' THEN added ELSE <<>>
        /\ UNCHANGED <<up, index, metadata, chunkVars>>

\* the bound check off by one
HitKept_OffByOne(md, label) == label < Len(md) - 1

\* the hit is kept: `if idx < len(self.metadata)`
HitKept(md, label) == label < Len(md)

\* the loop of VectorStore.search over the hits: the tuples collected, and
\* whether metadata[idx] raised IndexError
RECURSIVE Collect(_, _)
Collect(md, hits) ==
    IF hits = <<>> THEN [raised |-> FALSE, results |-> <<>>]
    ELSE LET label == Head(hits)[1]
             dist == Head(hits)[2]
             rest == Collect(md, Tail(hits))
         IN IF HitKept(md, label)
            THEN IF PyInRange(md, label)
                 THEN [raised |-> rest.raised,
                       results |-> <<<<PyGet(md, label).text, PyGet(md, label), dist>>>>
                                       \o rest.results]
                 ELSE [raised |-> TRUE, results |-> <<>>]
            ELSE rest

\* the index counts as empty: `if self.index.ntotal == 0`
IndexEmpty(idx, md) == Len(idx) = 0

\* VectorStore.search(query, top_k): the possible returns
SearchReturns(idx, md, q, k) ==
    IF IndexEmpty(idx, md)
    THEN {[raised |-> FALSE, results |-> <<>>, hits |-> <<>>]}
    ELSE {LET c == Collect(md, h)
          IN [raised |-> c.raised,
              results |-> IF c.raised THEN <<>> ELSE c.results,
              hits |-> h] : h \in FaissSearch(idx, Embed(q), k)}

search ==
    \E q \in Queries, k \in 1..MaxTopK : \E r \in SearchReturns(index, metadata, q, k) :
        /\ up
        /\ ret' = [Ret("search", IF r.raised THEN "raised" ELSE "ok")
                     EXCEPT !.query = q, !.top_k = k, !.hits = r.hits, !.value = r.results]
        /\ UNCHANGED <<up, index, metadata, diskIndex, diskMeta, added, clean, chunkVars>>

\* app.py "Reset persisted index": remove both files and rerun the script,
\* which constructs a new store; an os.remove that raises is reported and
\* the running store stays as it is
reset ==
    \E failed \in {"none", "first", "second"} :
        /\ up
        /\ diskIndex' = IF failed = "first" THEN diskIndex ELSE Absent
        /\ diskMeta' = IF failed = "none" THEN Absent ELSE diskMeta
        /\ index' = IF failed = "none" THEN <<>> ELSE index
        /\ metadata' = IF failed = "none" THEN <<>> ELSE metadata
        /\ ret' = Ret("reset", IF failed = "none" THEN "ok" ELSE "raised")
        /\ clean' = (failed = "none")
        /\ added' = <<>>
        /\ UNCHANGED <<up, chunkVars>>

----------------------------------------------------------------------------
(* The answer aggregator *)

\* what self.qa_pipeline does with one context: it raises, or returns an
\* answer span and a score
ExtractOutcomes ==
    {[raises |-> TRUE, answer |-> "", score |-> 0]}
      \cup {[raises |-> FALSE, answer |-> "span", score |-> sc] : sc \in Scores}

\* a failed extraction recorded without its diagnostic
Candidate_NoError(result, out) ==
    [answer |-> out.answer, score |-> out.score, context |-> result[1],
     meta |-> result[2]]

\* the body of the loop over the results: one candidate
Candidate(result, out) ==
    IF out.raises
    THEN [answer |-> "", score |-> 0, context |-> result[1], meta |-> result[2],
          error |-> "exception"]
    ELSE [answer |-> out.answer, score |-> out.score, context |-> result[1],
          meta |-> result[2]]

\* a maximum that lets a later equal score win
Replaces_OnTie(c, held) == c.score >= held.score

\* max() replaces the candidate it holds by a later one
Replaces(c, held) == c.score > held.score

\* Python's max(candidates, key=lambda x: x['score'])
RECURSIVE PyMaxFrom(_, _, _)
PyMaxFrom(cands, i, held) ==
    IF i > Len(cands) THEN held
    ELSE PyMaxFrom(cands, i + 1, IF Replaces(cands[i], held) THEN cands[i] ELSE held)

PyMax(cands) == PyMaxFrom(cands, 2, cands[1])

\* the empty retrieval not told apart
NoResults_Never(results) == FALSE

\* `if not results`
NoResults(results) == results = <<>>

\* QASystem.answer_question(question, top_k)
answer_question ==
    \E q \in Queries, k \in 1..MaxTopK : \E r \in SearchReturns(index, metadata, q, k) :
        /\ up
        /\ IF r.raised
           THEN ret' = [Ret("answer", "raised") EXCEPT !.query = q, !.top_k = k]
           ELSE IF NoResults(r.results)
           THEN ret' = [Ret("answer", "ok") EXCEPT !.query = q, !.top_k = k,
                           !.message = "No documents in the index."]
           ELSE \E outs \in [1..Len(r.results) -> ExtractOutcomes] :
                   LET cands == [j \in 1..Len(r.results) |-> Candidate(r.results[j], outs[j])]
                   IN ret' = [Ret("answer", "ok") EXCEPT
                                 !.query = q, !.top_k = k, !.value = r.results,
                                 !.outs = outs, !.calls = Len(r.results),
                                 !.best_answer = IF cands # <<>> THEN <<PyMax(cands)>> ELSE <<>>,
                                 !.all_answers = cands]
        /\ UNCHANGED <<up, index, metadata, diskIndex, diskMeta, added, clean, chunkVars>>

----------------------------------------------------------------------------
(* The chunker.  A text is its sequence of words; a word carries its place in
   the text and whether it ends a sentence. *)

Words(n) == {[i \in 1..n |-> [id |-> i, end |-> e[i]]] : e \in [1..n -> BOOLEAN]}

\* nltk's sent_tokenize: the sentences of the text, in order
RECURSIVE SentTokenize(_)
SentTokenize(t) ==
    IF t = <<>> THEN <<>>
    ELSE LET ends == {i \in 1..Len(t) : t[i].end}
             n == IF ends = {} THEN Len(t)
                  ELSE CHOOSE i \in ends : \A j \in ends : i <= j
         IN <<SubSeq(t, 1, n)>> \o SentTokenize(SubSeq(t, n + 1, Len(t)))

\* a chunk closed already when it would become full
Exceeds_OrFills(current, sent, size) == Len(current \o sent) >= size

\* `len((current + ' ' + sent).split()) > chunk_size`
Exceeds(current, sent, size) == Len(current \o sent) > size

\* the loop over the sentences and the flush after it
RECURSIVE ChunkLoop(_, _, _, _)
ChunkLoop(sents, current, out, size) ==
    IF sents = <<>>
    THEN IF current # <<>> THEN Append(out, current) ELSE out
    ELSE LET sent == Head(sents) IN
         IF Exceeds(current, sent, size)
         THEN ChunkLoop(Tail(sents), sent,
                        IF current # <<>> THEN Append(out, current) ELSE out, size)
         ELSE ChunkLoop(Tail(sents), current \o sent, out, size)

\* the fallback: windows of chunk_size words
RECURSIVE Windows(_, _)
Windows(t, size) ==
    IF t = <<>> THEN <<>>
    ELSE IF Len(t) <= size THEN <<t>>
    ELSE <<SubSeq(t, 1, size)>> \o Windows(SubSeq(t, size + 1, Len(t)), size)

\* chunk_text(text, chunk_size)
ChunkText(t, size, tok) ==
    IF Len(t) <= size THEN <<t>>
    ELSE IF tok THEN ChunkLoop(SentTokenize(t), <<>>, <<>>, size)
    ELSE Windows(t, size)

chunk_text ==
    /\ ~returned
    /\ returned' = TRUE
    /\ chunks' = ChunkText(text, chunk_size, has_tok)
    /\ UNCHANGED <<text, chunk_size, has_tok, storeVars>>

----------------------------------------------------------------------------
(* Specifications *)

InitStore ==
    /\ up = TRUE
    /\ index = <<>>
    /\ metadata = <<>>
    /\ diskIndex = Absent
    /\ diskMeta = Absent
    /\ ret = Ret("init", "ok")
    /\ added = <<>>
    /\ clean = TRUE

Init ==
    /\ InitStore
    /\ text = <<>>
    /\ chunk_size = 1
    /\ has_tok = TRUE
    /\ chunks = <<>>
    /\ returned = FALSE

\* the store as main.py and app.py drive it
Next == construct \/ add_book \/ save \/ search \/ reset

Spec == Init /\ [][Next]_vars

\* the store as any caller of VectorStore may drive it
NextApi == construct \/ add_texts \/ save \/ search

SpecApi == Init /\ [][NextApi]_vars

\* questions asked of a store that add_book calls filled and persisted
InitQA ==
    /\ \E n \in 0..MaxEntries : \E chs \in [1..n -> Texts], src \in Sources :
          /\ metadata = [i \in 1..n |-> [source |-> src, text |-> chs[i]]]
          /\ index = [i \in 1..n |-> Embed(chs[i])]
    /\ up = TRUE
    /\ diskIndex = IF index = <<>> THEN Absent ELSE File(index)
    /\ diskMeta = IF index = <<>> THEN Absent ELSE File(metadata)
    /\ ret = Ret("init", "ok")
    /\ added = metadata
    /\ clean = TRUE
    /\ text = <<>>
    /\ chunk_size = 1
    /\ has_tok = TRUE
    /\ chunks = <<>>
    /\ returned = FALSE

NextQA == search \/ answer_question

SpecQA == InitQA /\ [][NextQA]_vars

\* one call of chunk_text
InitChunk ==
    /\ InitStore
    /\ text \in UNION {Words(n) : n \in 0..MaxWords}
    /\ chunk_size \in 1..MaxChunkSize
    /\ has_tok \in BOOLEAN
    /\ chunks = <<>>
    /\ returned = FALSE

NextChunk == chunk_text

SpecChunk == InitChunk /\ [][NextChunk]_vars

----------------------------------------------------------------------------
(* Claims *)

StoreCalls == {"add", "save", "search"}

\* vectors and metadata have the same count and vector i embeds the text of
\* metadata entry i
Aligned ==
    /\ Len(index) = Len(metadata)
    /\ \A i \in 1..Len(index) : index[i] = Embed(metadata[i].text)

\* C1 as stated: a store that is aligned (it started empty or was loaded from
\* an aligned pair) stays aligned over every add with equal-length arguments,
\* every search and every persist, raising ones included.
C1_AsStated ==
    [][(ret'.op \in StoreCalls /\ Aligned) => Aligned']_vars

\* C1 amended: the same, for the add calls whose texts[i] is the text of
\* metaRecords[i].
C1_AlignedStaysAligned ==
    [][(/\ ret'.op \in StoreCalls
        /\ ret'.op = "add" => ret'.args_aligned
        /\ Aligned) => Aligned']_vars

C1_Witness ==
    /\ ret.op = "add" /\ ret.outcome = "raised" /\ ret.stage = "np_save"
    /\ ret.args_aligned
    /\ Aligned
    /\ Len(index) = 2 /\ index[1] # index[2]

\* C2: after nothing but successful adds since the empty start, a store
\* loaded from the two files holds exactly the added metadata, in the order
\* added, and as many vectors.
C2_RoundTrip ==
    clean =>
        LET s == LoadIndex(diskIndex, diskMeta) IN
        /\ s.metadata = added
        /\ Len(s.index) = Len(added)
        /\ ret.op = "init" => (metadata = added /\ Len(index) = Len(added))

C2_Witness ==
    /\ clean /\ ret.op = "init"
    /\ Len(added) = 2 /\ added[1] # added[2]
    /\ metadata = added

\* C3: a store constructed after the process stopped inside the persist step
\* of add holds as many vectors as metadata entries.
C3_KillInSaveKeepsCounts ==
    [][(/\ ret.op = "killed" /\ ret.stage \in {"write_index", "np_save"}
        /\ ret'.op = "init") => Len(index') = Len(metadata')]_vars

\* C4: construction never raises; it yields the persisted contents when both
\* files exist, are readable and hold the same count, and an empty store in
\* every other case.
C4_LoadOrEmpty ==
    ret.op = "init" =>
        /\ ret.outcome = "ok"
        /\ IF /\ diskIndex.st = "ok" /\ diskMeta.st = "ok"
              /\ Len(diskIndex.data) = Len(diskMeta.data)
           THEN index = diskIndex.data /\ metadata = diskMeta.data
           ELSE index = <<>> /\ metadata = <<>>

Injections(k, n) ==
    {f \in [1..k -> 1..n] : \A i, j \in 1..k : f[i] = f[j] => i = j}

\* C5: on a store of n vectors and n metadata entries, a search with
\* top_k = k <= n returns k tuples (text of entry i, entry i, distance of
\* vector i to the query) of k different positions, distances >= 0 and
\* non-decreasing, and no other entry is nearer than the last one returned.
C5_TopK ==
    (/\ ret.op = "search"
     /\ Len(index) = Len(metadata)
     /\ Len(index) >= ret.top_k)
    => /\ ret.outcome = "ok"
       /\ Len(ret.value) = ret.top_k
       /\ \E pos \in Injections(ret.top_k, Len(index)) :
            /\ \A j \in 1..ret.top_k :
                 /\ ret.value[j] = <<metadata[pos[j]].text, metadata[pos[j]],
                                     L2(index[pos[j]], Embed(ret.query))>>
                 /\ ret.value[j][3] >= 0
            /\ \A j \in 1..(ret.top_k - 1) : ret.value[j][3] <= ret.value[j + 1][3]
            /\ \A p \in 1..Len(index) :
                 (\A j \in 1..ret.top_k : pos[j] # p)
                   => L2(index[p], Embed(ret.query)) >= ret.value[ret.top_k][3]

C5_Witness ==
    /\ ret.op = "search" /\ ret.top_k = 2
    /\ Len(index) = 2 /\ Len(metadata) = 2
    /\ Len(ret.value) = 2
    /\ ret.value[1][2] = metadata[2] /\ ret.value[2][2] = metadata[1]
    /\ ret.value[1][3] < ret.value[2][3]

ValidHits(hits, md) == {j \in 1..Len(hits) : 0 <= hits[j][1] /\ hits[j][1] < Len(md)}

\* C6: search never raises and returns one tuple per hit whose label i has
\* 0 <= i < number of metadata entries, and none for any other hit; so with
\* top_k above the number of entries it returns at most that many results.
C6_OnlyValidHits ==
    ret.op = "search" =>
        /\ ret.outcome = "ok"
        /\ Len(ret.value) = Cardinality(ValidHits(ret.hits, metadata))
        /\ ret.top_k > Len(metadata) => Len(ret.value) <= Len(metadata)

\* C7: the best answer is a candidate of maximum score, and the first such
\* candidate in retrieval order.
C7_BestIsFirstMax ==
    (ret.op = "answer" /\ ret.all_answers # <<>>) =>
        \E j \in 1..Len(ret.all_answers) :
            /\ ret.best_answer = <<ret.all_answers[j]>>
            /\ \A i \in 1..Len(ret.all_answers) :
                 ret.all_answers[i].score <= ret.all_answers[j].score
            /\ \A i \in 1..(j - 1) :
                 ret.all_answers[i].score < ret.all_answers[j].score

C7_Witness ==
    /\ ret.op = "answer" /\ Len(ret.all_answers) = 3
    /\ ret.all_answers[1].score = 5
    /\ ret.all_answers[2].score = 9
    /\ ret.all_answers[3].score = 9
    /\ ret.all_answers[2].context # ret.all_answers[3].context
    /\ ret.best_answer = <<ret.all_answers[2]>>

\* C8: whatever contexts the extraction raises on, answer returns one
\* candidate per retrieved context, in retrieval order, with the context and
\* metadata retrieved; a candidate whose extraction raised has an empty
\* answer, score 0 and an error field, every other one the extracted answer
\* and score and no error field.
C8_OneCandidatePerContext ==
    (ret.op = "answer" /\ ret.value # <<>>) =>
        /\ ret.outcome = "ok"
        /\ Len(ret.all_answers) = Len(ret.value)
        /\ \A j \in 1..Len(ret.value) :
             LET c == ret.all_answers[j] IN
             /\ c.context = ret.value[j][1]
             /\ c.meta = ret.value[j][2]
             /\ IF ret.outs[j].raises
                THEN c.answer = "" /\ c.score = 0 /\ "error" \in DOMAIN c
                ELSE /\ c.answer = ret.outs[j].answer
                     /\ c.score = ret.outs[j].score
                     /\ "error" \notin DOMAIN c

C8_Witness ==
    /\ ret.op = "answer" /\ Len(ret.value) = 3 /\ Len(ret.all_answers) = 3
    /\ ~ret.outs[1].raises /\ ret.outs[2].raises /\ ~ret.outs[3].raises
    /\ ret.value[1][1] # ret.value[3][1]

RECURSIVE Flatten(_)
Flatten(ss) == IF ss = <<>> THEN <<>> ELSE Head(ss) \o Flatten(Tail(ss))

\* the number of words in the first n sequences of ss
WordsUpTo(ss, n) == Len(Flatten(SubSeq(ss, 1, n)))

\* C9: in sentence-aware mode, for a text of more than chunk_size words, the
\* chunks are non-empty groups of consecutive whole sentences that together
\* are the text; a chunk ends after a sentence exactly when the chunk so far
\* plus the next sentence has more than chunk_size words; and every chunk
\* has at most chunk_size words unless it is one single sentence.
C9_GreedyPartition ==
    (returned /\ has_tok /\ Len(text) > chunk_size) =>
        LET S == SentTokenize(text)
            sentEnds == {WordsUpTo(S, m) : m \in 0..Len(S)}
            chunkEnds == {WordsUpTo(chunks, c) : c \in 1..Len(chunks)}
        IN /\ \A c \in 1..Len(chunks) : chunks[c] # <<>>
           /\ Flatten(chunks) = text
           /\ chunkEnds \subseteq sentEnds
           /\ \A m \in 1..(Len(S) - 1) :
                LET e == WordsUpTo(S, m)
                    c == CHOOSE d \in 1..Len(chunks) :
                            WordsUpTo(chunks, d - 1) < e /\ e <= WordsUpTo(chunks, d)
                IN (e \in chunkEnds)
                     <=> (e - WordsUpTo(chunks, c - 1)) + Len(S[m + 1]) > chunk_size
           /\ \A c \in 1..Len(chunks) :
                \/ Len(chunks[c]) <= chunk_size
                \/ \E m \in 1..Len(S) : chunks[c] = S[m]

C9_Witness ==
    /\ returned /\ has_tok /\ Len(text) > chunk_size
    /\ Len(chunks) = 2
    /\ Len(chunks[1]) = 2 /\ chunks[1][1].end
    /\ Len(chunks[2]) > chunk_size

\* C10: on an index of zero vectors, search returns the empty list, and
\* answer returns no best answer, no candidates and the message, without
\* calling the extraction and without raising.
C10_EmptyIndex ==
    Len(index) = 0 =>
        /\ ret.op = "search" => (ret.outcome = "ok" /\ ret.value = <<>>)
        /\ ret.op = "answer" =>
             /\ ret.outcome = "ok"
             /\ ret.best_answer = <<>>
             /\ ret.all_answers = <<>>
             /\ ret.message = "No documents in the index."
             /\ ret.calls = 0

C10_Witness ==
    /\ Len(index) = 0 /\ ret.op = "answer" /\ ret.top_k = 3 /\ ret.query = "q"
    /\ ret.message = "No documents in the index."

====
